---- MODULE Spec2Model ----
(***************************************************************************)
(* The caching layer of the blog (src/db_conn.py) and the handlers of      *)
(* src/blog.py that use it, as one state machine.                          *)
(*                                                                         *)
(* One process runs one asyncio event loop.  Requests are coroutines on    *)
(* that loop; a coroutine keeps the loop until it awaits something that    *)
(* really suspends.  The boto3 calls (get_item, scan, query, put_item) are *)
(* synchronous: the coroutine that makes one keeps the loop's thread for   *)
(* the whole call.  That is the variable loop: 0 when the loop is free to  *)
(* run a ready coroutine, r while request r (or the task request r         *)
(* created) is inside a boto3 call.                                        *)
(*                                                                         *)
(* get_post_by_id is wrapped by async_lru.alru_cache(maxsize=56): an       *)
(* OrderedDict from key to future, a task per miss, waiters on the shared  *)
(* future.  The three query functions are wrapped by asyncache.cached over *)
(* a cachetools.TTLCache: look up, on KeyError await the function, store.  *)
(***************************************************************************)
EXTENDS Integers, Sequences, FiniteSets, TLC

(***************************************************************************)
(* Bounds.  The capacities and lifetimes of the caches are scaled down so  *)
(* that eviction and expiry happen within a few requests.                  *)
(***************************************************************************)
NumIds == 3        \* post ids 1..NumIds
NumReqs == 4       \* requests of one run
MaxTime == 4       \* the clock runs 1..MaxTime
maxsize == 2       \* stands for alru_cache(maxsize=56)
ttl_maxsize == 1   \* stands for TTLCache(maxsize=128)
scan_ttl == 1      \* stands for ttl=600 of get_all_posts, get_posts_by_attr_containing
query_ttl == 2     \* stands for ttl=6000 of query_table
MaxBacklog == 1    \* requests that have arrived and wait for their turn on the loop
MaxPosts == 6      \* posts of a list that is sorted or previewed
MaxDate == 2       \* their dates are 1..MaxDate
MaxCounted == 3    \* posts of a list whose categories are counted
MaxCats == 2       \* categories of one of those posts

Ids == 1..NumIds
Reqs == 1..NumReqs

VARIABLES
  now,               \* time.time() / the TTLCache timer
  table,             \* blog_table: id -> date of the stored item, 0 when there is none
  loop,              \* 0, or the request whose coroutine is inside a boto3 call
  cache_exceptions,  \* the installed async_lru keeps the future of a failed fetch in
                     \* the cache (1.x, cache_exceptions=True) or drops the entry (2.x)
  expire_at_ttl,     \* TTLCache's treatment of an entry at exactly its expire time
  lru,               \* alru_cache's OrderedDict: sequence of [key, fut], oldest first
  futs,              \* futs[r]: the future (and task) request r created on a miss
  ttl,               \* ttl[f]: the TTLCache of query function f: [key, val, expire], LRU
                     \* first; stored, the time of the store, is kept for the record only
  pc, op, arg,       \* each request in flight: position, function called, arguments
  local_now,         \* add_new_post's local variable now
  wait,              \* the future a request awaits
  how,               \* how the call is served: "hit", "join" (a pending future), "miss"
  last,              \* the call that returned last: what it was and what it returned
  recent,            \* the ids given to get_post_by_id, least recently given first
  posts,             \* the list of posts a handler got from db_conn: the object the
                     \* cache holds
  shown              \* what the handler made of posts last: [fn, val]

vars == <<now, table, loop, cache_exceptions, expire_at_ttl, lru, futs, ttl, pc, op, arg,
          local_now, wait, how, last, recent, posts, shown>>

\* the state of db_conn
caches == <<now, table, loop, cache_exceptions, expire_at_ttl, lru, futs, ttl, pc, op, arg,
            local_now, wait, how, last, recent>>

----------------------------------------------------------------------------
(* Storage: what boto3 returns for the table's present contents.           *)

\* The categories and tags a post is submitted with (inputs of add_new_post).
CategoriesOf(i) == IF i = 1 THEN <<"x">> ELSE IF i = 2 THEN <<"x", "y">> ELSE <<>>
TagsOf(i) == IF i % 2 = 1 THEN <<"t">> ELSE <<>>

Item(t, i) == [postId |-> i, date |-> t[i],
               categories |-> CategoriesOf(i), tags |-> TagsOf(i)]

Contains(s, v) == \E j \in 1..Len(s) : s[j] = v

RECURSIVE ItemsUpTo(_, _)
ItemsUpTo(t, n) ==
  IF n = 0 THEN <<>>
  ELSE IF t[n] = 0 THEN ItemsUpTo(t, n - 1)
       ELSE Append(ItemsUpTo(t, n - 1), Item(t, n))

\* blog_table.scan()["Items"]
ScanItems(t) == ItemsUpTo(t, NumIds)

AttrOf(post, attr) == IF attr = "categories" THEN post.categories ELSE post.tags

\* blog_table.get_item(Key={"postId": i}).get("Item"): <<>> is None
get_item(t, i) == IF t[i] = 0 THEN <<>> ELSE <<Item(t, i)>>

\* blog_table.scan(FilterExpression=Attr(attr).contains(value))
scan_contains(t, k) ==
  [Items |-> SelectSeq(ScanItems(t), LAMBDA p : Contains(AttrOf(p, k[1]), k[2]))]

\* blog_table.query(KeyConditionExpression=Key("postId").eq(value))
query_eq(t, k) ==
  [Items |-> SelectSeq(ScanItems(t), LAMBDA p : p.postId = k[2])]

----------------------------------------------------------------------------
(* Sequences used as ordered dictionaries.                                 *)

RECURSIVE IndexFrom(_, _, _)
IndexFrom(c, k, j) ==
  IF j > Len(c) THEN 0
  ELSE IF c[j].key = k THEN j ELSE IndexFrom(c, k, j + 1)

\* position of key k in c, 0 when absent
IndexOf(c, k) == IndexFrom(c, k, 1)

Remove(c, k) == SelectSeq(c, LAMBDA e : e.key # k)

KeysOf(c) == {c[j].key : j \in 1..Len(c)}

\* OrderedDict.move_to_end(key)
move_to_end(c, k) ==
  IF IndexOf(c, k) = 0 THEN c ELSE Append(Remove(c, k), c[IndexOf(c, k)])

----------------------------------------------------------------------------
(* Results.  val is <<>> for None, <<item>> for an item, a sequence of     *)
(* items for a list, [Items |-> ...] for a response dict.                  *)

Ok(v) == [kind |-> "ok", val |-> v]
Raised == [kind |-> "exc", val |-> <<>>]

NoFut == [key |-> 0, state |-> "none", val |-> <<>>]

FutResult(f) == IF f.state = "exc" THEN Raised ELSE Ok(f.val)

NoCall == [op |-> "none", arg |-> 0, how |-> "none",
           result |-> [kind |-> "none", val |-> <<>>], arrived |-> 0]

\* the number of requests that have arrived
Arrived == Cardinality({q \in Reqs : pc[q] # "idle"})

\* A call returns res (or raises): the record of the call, with, for a call
\* that went to the backend for a query, the number of requests that had
\* arrived by then.
Return(o, a, h, res) ==
  [op |-> o, arg |-> a, how |-> h, result |-> res,
   arrived |-> IF h = "miss" /\ o # "get_post_by_id" THEN Arrived ELSE 0]

\* Futures nobody refers to are gone: f stays while it is pending, in the
\* cache c, or awaited by a request (w: the futures awaited).
collect(fs, c, w) ==
  [f \in Reqs |->
     IF \/ fs[f].state \in {"scheduled", "running"}
        \/ \E j \in 1..Len(c) : c[j].fut = f
        \/ \E q \in Reqs : w[q] = f
     THEN fs[f] ELSE NoFut]

\* Requests are numbered in the order in which their coroutines reach the
\* call into db_conn: request r makes its call once the earlier ones made
\* theirs.  A request that arrives while the loop is free runs at once; one
\* that arrived during a boto3 call has been waiting ("issued").
Turn(r) ==
  /\ loop = 0
  /\ pc[r] \in {"idle", "issued"}
  /\ IF r = 1 THEN TRUE ELSE pc[r - 1] \notin {"idle", "issued"}

----------------------------------------------------------------------------
(* alru_cache(maxsize=56) around get_post_by_id.                           *)

\* a hit that leaves the order alone: eviction in insertion order
_cache_hit_fifo(c, k) == c

\* _cache_hit: the entry becomes the most recently used
_cache_hit(c, k) == move_to_end(c, k)

\* wrapped._cache[key] = fut, then popitem(last=False) when over maxsize
_cache_store(c, k, f) ==
  LET d == Append(c, [key |-> k, fut |-> f])
  IN  IF Len(d) > maxsize THEN Tail(d) ELSE d

\* the task's done callback: the future is resolved; async_lru 2.x pops the
\* key's entry when the task raised, 1.x keeps it (cache_exceptions=True)
_task_done(c, k, ok) == IF ok \/ cache_exceptions THEN c ELSE Remove(c, k)

\* a lookup that takes a cached None for a miss
is_cached_unless_None(f) == f # NoFut /\ ~(f.state = "done" /\ f.val = <<>>)

\* fut = wrapped._cache.get(key) is not None (NoFut: the lookup found none)
is_cached(f) == f # NoFut

\* the value a hit returns: fut.result()
HitResult(f) == FutResult(f)

\* The wrapper, up to its return or its await of the (shielded) future.
get_post_by_id(r, ids) ==
  /\ Turn(r)
  /\ \E k \in ids :
     LET i == IndexOf(lru, k)
         f == IF i = 0 THEN NoFut ELSE futs[lru[i].fut]
     IN  /\ recent' = Append(SelectSeq(recent, LAMBDA x : x # k), k)
         /\ IF is_cached(f)
            THEN /\ lru' = _cache_hit(lru, k)
                 /\ futs' = futs
                 /\ IF f.state \in {"scheduled", "running"}
                    THEN /\ pc' = [pc EXCEPT ![r] = "waiting"]
                         /\ op' = [op EXCEPT ![r] = "get_post_by_id"]
                         /\ arg' = [arg EXCEPT ![r] = k]
                         /\ wait' = [wait EXCEPT ![r] = lru[i].fut]
                         /\ how' = [how EXCEPT ![r] = "join"]
                         /\ last' = last
                    ELSE /\ pc' = [pc EXCEPT ![r] = "done"]
                         /\ last' = Return("get_post_by_id", k, "hit", HitResult(f))
                         /\ UNCHANGED <<op, arg, wait, how>>
            ELSE \* miss: a future and a task for the fetch
                 /\ lru' = _cache_store(Remove(lru, k), k, r)
                 /\ futs' = collect([futs EXCEPT ![r] =
                                       [key |-> k, state |-> "scheduled", val |-> <<>>]],
                                    lru', wait)
                 /\ pc' = [pc EXCEPT ![r] = "waiting"]
                 /\ op' = [op EXCEPT ![r] = "get_post_by_id"]
                 /\ arg' = [arg EXCEPT ![r] = k]
                 /\ wait' = [wait EXCEPT ![r] = r]
                 /\ how' = [how EXCEPT ![r] = "miss"]
                 /\ last' = last
  /\ UNCHANGED <<posts, shown, now, table, loop, cache_exceptions, expire_at_ttl, ttl, local_now>>

\* The task starts the coroutine's body: blog_table.get_item is called and
\* holds the loop's thread.  The loop runs ready tasks in creation order.
get_item_call(f) ==
  /\ loop = 0
  /\ futs[f].state = "scheduled"
  /\ \A g \in 1..(f - 1) : futs[g].state # "scheduled"
  /\ futs' = [futs EXCEPT ![f].state = "running"]
  /\ loop' = f
  /\ UNCHANGED <<posts, shown, now, table, cache_exceptions, expire_at_ttl, lru, ttl, pc, op, arg, local_now,
                 wait, how, last, recent>>

\* get_item returns or raises; the task is done and its future is resolved.
get_item_return(f) ==
  /\ loop = f
  /\ futs[f].state = "running"
  /\ \E ok \in BOOLEAN :
       /\ lru' = _task_done(lru, futs[f].key, ok)
       /\ futs' = collect([futs EXCEPT ![f] =
                            IF ok THEN [@ EXCEPT !.state = "done",
                                                 !.val = get_item(table, futs[f].key)]
                            ELSE [@ EXCEPT !.state = "exc"]],
                          lru', wait)
  /\ loop' = 0
  /\ UNCHANGED <<posts, shown, now, table, cache_exceptions, expire_at_ttl, ttl, pc, op, arg, local_now,
                 wait, how, last, recent>>

Resumable(r) == pc[r] = "waiting" /\ futs[wait[r]].state \in {"done", "exc"}

\* A waiter of a resolved future is resumed with its result or exception;
\* the wake-ups run in the order of the waiters.
resume(r) ==
  /\ loop = 0
  /\ Resumable(r)
  /\ \A q \in 1..(r - 1) : ~Resumable(q)
  /\ pc' = [pc EXCEPT ![r] = "done"]
  /\ last' = Return(op[r], arg[r], how[r], FutResult(futs[wait[r]]))
  /\ op' = [op EXCEPT ![r] = "none"]
  /\ arg' = [arg EXCEPT ![r] = 0]
  /\ wait' = [wait EXCEPT ![r] = 0]
  /\ how' = [how EXCEPT ![r] = "none"]
  /\ futs' = collect(futs, lru, wait')
  /\ UNCHANGED <<posts, shown, now, table, loop, cache_exceptions, expire_at_ttl, lru, ttl, local_now, recent>>

\* a wait without the shield: cancelling the waiter cancels the future
cancel_unshielded(r) ==
  /\ loop = 0
  /\ pc[r] = "waiting"
  /\ pc' = [pc EXCEPT ![r] = "cancelled"]
  /\ how' = [how EXCEPT ![r] = IF futs[wait[r]].state = "scheduled"
                                THEN "in flight" ELSE "resolved"]
  /\ wait' = [wait EXCEPT ![r] = 0]
  /\ futs' = collect([futs EXCEPT ![wait[r]].state =
                        IF @ = "scheduled" THEN "exc" ELSE @], lru, wait')
  /\ UNCHANGED <<posts, shown, now, table, loop, cache_exceptions, expire_at_ttl, lru, ttl, op, arg,
                 local_now, last, recent>>

\* The request of a waiter is cancelled (its client went away): the
\* CancelledError reaches the coroutine at its await of shield(fut), the
\* shield is cancelled and the future and the task are left alone.  how
\* records whether the fetch was still in flight.
cancel(r) ==
  /\ loop = 0
  /\ pc[r] = "waiting"
  /\ pc' = [pc EXCEPT ![r] = "cancelled"]
  /\ how' = [how EXCEPT ![r] = IF futs[wait[r]].state = "scheduled"
                                THEN "in flight" ELSE "resolved"]
  /\ wait' = [wait EXCEPT ![r] = 0]
  /\ futs' = collect(futs, lru, wait')
  /\ UNCHANGED <<posts, shown, now, table, loop, cache_exceptions, expire_at_ttl, lru, ttl, op, arg,
                 local_now, last, recent>>

----------------------------------------------------------------------------
(* asyncache.cached(cache=TTLCache(maxsize, ttl)) around the three query   *)
(* functions.  Each function has a TTLCache of its own.                    *)

QueryFuncs == {"get_all_posts", "get_posts_by_attr_containing", "query_table"}

\* the cached function a call goes through
Func(o) == IF o = "get_all_posts_by_date" THEN "get_all_posts" ELSE o

\* the ttl argument of the function's TTLCache
TTLOf(f) == IF f = "query_table" THEN query_ttl ELSE scan_ttl

\* the body of the cached function: one boto3 call
Backend(f, t, k) ==
  IF f = "get_all_posts" THEN ScanItems(t)
  ELSE IF f = "get_posts_by_attr_containing" THEN scan_contains(t, k)
  ELSE query_eq(t, k)

\* TTLCache: an entry is expired once the timer has passed its expire time;
\* at the expire time itself it is expired or not, by the cachetools release
Expired(e, t) == IF expire_at_ttl THEN e.expire <= t ELSE e.expire < t

\* TTLCache.expire(time): drop the expired entries
expire(c, t) == SelectSeq(c, LAMBDA e : ~Expired(e, t))

\* a lookup that does not look at the expire time
Live_unexpired(c, k, t) == IndexOf(c, k) # 0

\* TTLCache.__getitem__ finds a live entry
Live(c, k, t) == IndexOf(c, k) # 0 /\ ~Expired(c[IndexOf(c, k)], t)

\* an access that gives the entry a new lifetime
ttl_getitem_touch(c, k) ==
  IF IndexOf(c, k) = 0 THEN c
  ELSE LET e == c[IndexOf(c, k)]
       IN  Append(Remove(c, k), [e EXCEPT !.expire = now + (e.expire - e.stored)])

\* TTLCache.__getitem__: the entry's link moves to the end of the LRU order
ttl_getitem(c, k) == move_to_end(c, k)

\* the expire time a stored entry gets
ExpireTime(t, f) == t + TTLOf(f)

\* TTLCache.__setitem__: expire, make room (popitem drops the LRU entry),
\* store, and link the entry last with a fresh expire time
ttl_setitem(c, f, k, v, t) ==
  LET c1 == expire(c, t)
      c2 == IF IndexOf(c1, k) = 0 /\ Len(c1) >= ttl_maxsize THEN Tail(c1) ELSE c1
  IN  Append(Remove(c2, k),
             [key |-> k, val |-> v, expire |-> ExpireTime(t, f), stored |-> t])

\* a wrapper that stores what it has whether or not the function raised
cached_store_always(c, f, k, ok, v, t) == ttl_setitem(c, f, k, v, t)

\* a wrapper that stores a result only when it has posts
cached_store_nonempty(c, f, k, ok, v, t) ==
  IF ok /\ v # <<>> /\ v # [Items |-> <<>>] THEN ttl_setitem(c, f, k, v, t) ELSE c

\* the wrapper after the awaited function: its value is stored, an exception
\* leaves the wrapper before the store
cached_store(c, f, k, ok, v, t) == IF ok THEN ttl_setitem(c, f, k, v, t) ELSE c

RECURSIVE InsertByDate_before_equal(_, _)
\* p goes before the posts of its date, as in the reverse of an ascending sort
InsertByDate_before_equal(s, p) ==
  IF s = <<>> THEN <<p>>
  ELSE IF s[1].date > p.date THEN <<s[1]>> \o InsertByDate_before_equal(Tail(s), p)
       ELSE <<p>> \o s

RECURSIVE InsertByDate(_, _)
\* p goes behind every post whose date is not smaller
InsertByDate(s, p) ==
  IF s = <<>> THEN <<p>>
  ELSE IF s[1].date >= p.date THEN <<s[1]>> \o InsertByDate(Tail(s), p)
       ELSE <<p>> \o s

RECURSIVE SortByDate(_, _)
SortByDate(s, n) == IF n = 0 THEN <<>> ELSE InsertByDate(SortByDate(s, n - 1), s[n])

\* sorted(posts, key=lambda x: x["date"], reverse=True)
sorted_by_date(s) == SortByDate(s, Len(s))

\* what the caller gets from the cached function's value
Returned(o, v) == IF o = "get_all_posts_by_date" THEN sorted_by_date(v) ELSE v

\* The wrapper up to its return on a hit, or into the boto3 call on a miss:
\* nothing in between suspends the coroutine.
cached_call(r, calls) ==
  /\ Turn(r)
  /\ \E call \in calls :
     LET f == Func(call[1])
         k == call[2]
         c == ttl[f]
     IN  /\ ttl' = [ttl EXCEPT ![f] = ttl_getitem(c, k)]
         /\ IF Live(c, k, now)
            THEN /\ pc' = [pc EXCEPT ![r] = "done"]
                 /\ last' = Return(call[1], k, "hit",
                                   Ok(Returned(call[1], c[IndexOf(c, k)].val)))
                 /\ UNCHANGED <<op, arg, how, loop>>
            ELSE /\ pc' = [pc EXCEPT ![r] = "backend"]
                 /\ op' = [op EXCEPT ![r] = call[1]]
                 /\ arg' = [arg EXCEPT ![r] = k]
                 /\ how' = [how EXCEPT ![r] = "miss"]
                 /\ last' = last
                 /\ loop' = r
  /\ UNCHANGED <<posts, shown, now, table, cache_exceptions, expire_at_ttl, lru, futs, local_now, wait, recent>>

\* The boto3 call returns and the value is stored, or it raises.
cached_return(r) ==
  /\ loop = r
  /\ pc[r] = "backend"
  /\ Func(op[r]) \in QueryFuncs
  /\ LET f == Func(op[r])
         v == Backend(f, table, arg[r])
     IN  \E ok \in BOOLEAN :
           /\ ttl' = [ttl EXCEPT ![f] = cached_store(@, f, arg[r], ok, v, now)]
           /\ last' = Return(op[r], arg[r], how[r],
                             IF ok THEN Ok(Returned(op[r], v)) ELSE Raised)
  /\ pc' = [pc EXCEPT ![r] = "done"]
  /\ op' = [op EXCEPT ![r] = "none"]
  /\ arg' = [arg EXCEPT ![r] = 0]
  /\ how' = [how EXCEPT ![r] = "none"]
  /\ loop' = 0
  /\ UNCHANGED <<posts, shown, now, table, cache_exceptions, expire_at_ttl, lru, futs, local_now, wait, recent>>

----------------------------------------------------------------------------
(* The write path.                                                         *)

\* now = int(time.time()), then blog_table.put_item is called
add_new_post(r, ids) ==
  /\ Turn(r)
  /\ \E post_id \in ids :
       /\ op' = [op EXCEPT ![r] = "add_new_post"]
       /\ arg' = [arg EXCEPT ![r] = post_id]
  /\ local_now' = [local_now EXCEPT ![r] = now]
  /\ pc' = [pc EXCEPT ![r] = "backend"]
  /\ how' = [how EXCEPT ![r] = "write"]
  /\ loop' = r
  /\ UNCHANGED <<posts, shown, now, table, cache_exceptions, expire_at_ttl, lru, futs, ttl, wait, last, recent>>

\* a write that drops the cached listing when it succeeds
put_item_return_invalidate(r) ==
  /\ loop = r
  /\ pc[r] = "backend"
  /\ op[r] = "add_new_post"
  /\ \E ok \in BOOLEAN :
       /\ table' = IF ok THEN [table EXCEPT ![arg[r]] = local_now[r]] ELSE table
       /\ ttl' = IF ok THEN [ttl EXCEPT !["get_all_posts"] = <<>>] ELSE ttl
       /\ last' = Return(op[r], arg[r], how[r], IF ok THEN Ok(<<>>) ELSE Raised)
  /\ local_now' = [local_now EXCEPT ![r] = 0]
  /\ pc' = [pc EXCEPT ![r] = "done"]
  /\ op' = [op EXCEPT ![r] = "none"]
  /\ arg' = [arg EXCEPT ![r] = 0]
  /\ how' = [how EXCEPT ![r] = "none"]
  /\ loop' = 0
  /\ UNCHANGED <<posts, shown, now, cache_exceptions, expire_at_ttl, lru, futs, wait, recent>>

\* put_item returns or raises
put_item_return(r) ==
  /\ loop = r
  /\ pc[r] = "backend"
  /\ op[r] = "add_new_post"
  /\ \E ok \in BOOLEAN :
       /\ table' = IF ok THEN [table EXCEPT ![arg[r]] = local_now[r]] ELSE table
       /\ last' = Return(op[r], arg[r], how[r], IF ok THEN Ok(<<>>) ELSE Raised)
  /\ local_now' = [local_now EXCEPT ![r] = 0]
  /\ pc' = [pc EXCEPT ![r] = "done"]
  /\ op' = [op EXCEPT ![r] = "none"]
  /\ arg' = [arg EXCEPT ![r] = 0]
  /\ how' = [how EXCEPT ![r] = "none"]
  /\ loop' = 0
  /\ UNCHANGED <<posts, shown, now, cache_exceptions, expire_at_ttl, lru, futs, ttl, wait, recent>>

----------------------------------------------------------------------------
(* The environment: requests arrive, time passes.                          *)

\* Request r arrives during a boto3 call: its handler is ready to run and
\* waits for the loop.
request(r) ==
  /\ loop # 0
  /\ pc[r] = "idle"
  /\ IF r = 1 THEN TRUE ELSE pc[r - 1] # "idle"
  /\ Cardinality({q \in Reqs : pc[q] = "issued"}) < MaxBacklog
  /\ pc' = [pc EXCEPT ![r] = "issued"]
  /\ UNCHANGED <<posts, shown, now, table, loop, cache_exceptions, expire_at_ttl, lru, futs, ttl, op, arg,
                 local_now, wait, how, last, recent>>

\* time passes for a Point Cache whose entries have a lifetime that a tick ends
tick_expire ==
  /\ now < MaxTime
  /\ now' = now + 1
  /\ lru' = <<>>
  /\ futs' = collect(futs, lru', wait)
  /\ UNCHANGED <<posts, shown, table, loop, cache_exceptions, expire_at_ttl, ttl, pc, op, arg,
                 local_now, wait, how, last, recent>>

tick ==
  /\ now < MaxTime
  /\ now' = now + 1
  /\ UNCHANGED <<posts, shown, table, loop, cache_exceptions, expire_at_ttl, lru, futs, ttl, pc, op, arg,
                 local_now, wait, how, last, recent>>

----------------------------------------------------------------------------

(* The handlers of blog.py on the list they got from db_conn.              *)

\* num_posts of preview_posts where the caller gives none
default_num_posts == 3

\* num_posts that categories() and tags() give
listing_num_posts == 5

\* words of truncate_post
default_words == 85

\* no handler has made anything yet
NoView == [fn |-> "none", val |-> <<>>]

View(f, v) == [fn |-> f, val |-> v]

\* A body as it is stored: Markdown, or HTML when it starts with "<"; it is a
\* plain str and has all its words (words = 0).
Body(i) == [html |-> (i % 2 = 0), safe |-> FALSE, words |-> 0]

\* an item of the table with its body
Post(i, d, cs) == [postId |-> i, date |-> d, categories |-> cs, body |-> Body(i)]

\* a list that is sorted and previewed: n posts with the dates ds
SortInput(n, ds) == [j \in 1..n |-> Post(j, ds[j], CategoriesOf(j))]

CatNames == {"x", "y"}

\* the categories attribute of one post: a list, which may name a category twice
CatLists == UNION {[1..m -> CatNames] : m \in 0..MaxCats}

\* a list whose categories are counted: n posts with the categories cl
CountInput(n, cl) == [j \in 1..n |-> Post(j, j, cl[j])]

\* markup(): a string that starts with "<" is taken as HTML, any other goes
\* through markdown2; the result is Markup or a plain str
markup(b, markup_) == [html |-> TRUE, safe |-> markup_, words |-> b.words]

\* body_markup(): a new dict with the body replaced
body_markup(post, markup_) == [post EXCEPT !.body = markup(post.body, markup_)]

\* truncate_post(): a new dict whose body is the Markup of the first words
\* words of the HTML
truncate_post(post, words) ==
  [post EXCEPT !.body = [html |-> post.body.html, safe |-> TRUE,
                         words |-> IF post.body.words = 0 THEN words
                                   ELSE IF post.body.words < words THEN post.body.words
                                   ELSE words]]

Min(a, b) == IF a < b THEN a ELSE b

\* posts[-num_posts:] for a num_posts that is positive: the last ones
Slice_last(s, n) == SubSeq(s, Len(s) - Min(n, Len(s)) + 1, Len(s))

\* posts[:num_posts] for a num_posts that is not negative
Slice(s, n) == SubSeq(s, 1, Min(n, Len(s)))

\* preview_posts(posts, num_posts), as the template iterates over it
preview_posts(s, num_posts) ==
  LET last_x_posts == Slice(s, num_posts)
  IN  [j \in 1..Len(last_x_posts) |->
         truncate_post(body_markup(last_x_posts[j], FALSE), default_words)]

\* reduce(lambda x, y: x + y["categories"], d, [])
RECURSIVE AllCategories(_, _)
AllCategories(d, n) ==
  IF n = 0 THEN <<>> ELSE AllCategories(d, n - 1) \o d[n].categories

\* Counter(iterable): a key is inserted when it is first met and counted after
RECURSIVE Counter(_, _)
Counter(s, n) ==
  IF n = 0 THEN <<>>
  ELSE LET count == Counter(s, n - 1)
           at == CHOOSE j \in 0..Len(count) :
                   IF \E k \in 1..Len(count) : count[k].name = s[n]
                   THEN j > 0 /\ count[j].name = s[n]
                   ELSE j = 0
       IN  IF at = 0 THEN Append(count, [name |-> s[n], count |-> 1])
           ELSE [count EXCEPT ![at].count = @ + 1]

\* the pairs with the category that was met last first
category_counter_latest_first(d) ==
  LET cats == AllCategories(d, Len(d))
      count == Counter(cats, Len(cats))
  IN  [j \in 1..Len(count) |-> count[Len(count) + 1 - j]]

\* category_counter(d): count.items() in the order of insertion
category_counter(d) ==
  LET cats == AllCategories(d, Len(d))
  IN  Counter(cats, Len(cats))

\* The list the handler was given is the object the cache holds, and its
\* dicts are the dicts of the cached list: what a function does to its
\* argument, it does to the cached data.

\* the list given to sorted(), after: sorted() builds a new list of the same
\* dicts (list.sort() would order the list itself)
sorted_after(s) == s

\* a body_markup that sets post["body"]
body_markup_in_place(post, markup_) == body_markup(post, markup_)

\* the dict given to body_markup(), after: {**post, **{...}} builds a new dict
body_markup_after(post, markup_) == post

\* The cached list after preview_posts(s, num_posts), s being a list of its
\* dicts: the slice is a new list; body_markup gets the dicts of the slice
\* and truncate_post the dicts that body_markup built.
preview_posts_after(cached, s, num_posts) ==
  [j \in 1..Len(cached) |->
     IF \E k \in 1..Len(Slice(s, num_posts)) : s[k] = cached[j]
     THEN body_markup_after(cached[j], FALSE)
     ELSE cached[j]]

\* `all_posts = await get_all_posts_by_date()`
get_all_posts_by_date ==
  /\ shown' = View("get_all_posts_by_date", sorted_by_date(posts))
  /\ posts' = sorted_after(posts)
  /\ UNCHANGED caches

\* preview_posts on the list as it came
preview(num_posts) ==
  /\ shown' = View("preview_posts", [n |-> num_posts, posts |-> preview_posts(posts, num_posts)])
  /\ posts' = preview_posts_after(posts, posts, num_posts)
  /\ UNCHANGED caches

\* category_counter on the list as it came
count_categories ==
  /\ shown' = View("category_counter", category_counter(posts))
  /\ posts' = posts
  /\ UNCHANGED caches

\* index(): the previews and the categories of the posts by date
index ==
  LET all_posts == sorted_by_date(posts)
  IN  /\ shown' = View("index", [posts |-> preview_posts(all_posts, default_num_posts),
                                 categories |-> category_counter(all_posts)])
      /\ posts' = preview_posts_after(sorted_after(posts), all_posts, default_num_posts)
      /\ UNCHANGED caches

\* latest() without its except clause: the IndexError leaves the handler
latest_uncaught ==
  LET all_posts == sorted_by_date(posts)
  IN  /\ shown' = View("latest", IF Len(all_posts) = 0 THEN [status |-> 500, location |-> 0]
                                 ELSE [status |-> 302, location |-> all_posts[1].postId])
      /\ posts' = sorted_after(posts)
      /\ UNCHANGED caches

\* latest(): all_posts[0] raises IndexError on an empty list, which is caught
latest ==
  LET all_posts == sorted_by_date(posts)
  IN  /\ shown' = View("latest", IF Len(all_posts) = 0 THEN [status |-> 404, location |-> 0]
                                 ELSE [status |-> 302, location |-> all_posts[1].postId])
      /\ posts' = sorted_after(posts)
      /\ UNCHANGED caches

\* What leaves the try block of get_post() when get_post_by_id has answered
\* with res: the error of the storage client (a botocore exception), the
\* TypeError of post["body"] when post is None, or nothing.
try_get_post(res) ==
  IF res.kind = "exc" THEN "ClientError"
  ELSE IF res.val = <<>> THEN "TypeError"
       ELSE "none"

\* a handler with `except Exception`
Caught_any == {"AttributeError", "TypeError", "ClientError"}

\* `except (AttributeError, TypeError)`
Caught == {"AttributeError", "TypeError"}

\* get_post() from the return of get_post_by_id on: the page, abort(404) in
\* the except clause, or the exception leaves the handler (a 500 response)
get_post ==
  /\ last.op = "get_post_by_id"
  /\ LET raised == try_get_post(last.result)
     IN  shown' = View("get_post", [post_id |-> last.arg,
                                    post |-> last.result,
                                    status |-> IF raised = "none" THEN 200
                                               ELSE IF raised \in Caught THEN 404
                                               ELSE 500])
  /\ posts' = posts
  /\ UNCHANGED caches

\* categories() and tags(): posts is the "Items" of the scan that was filtered
listing ==
  /\ shown' = View("listing", preview_posts(posts, listing_num_posts))
  /\ posts' = preview_posts_after(posts, posts, listing_num_posts)
  /\ UNCHANGED caches

----------------------------------------------------------------------------

InitCaches ==
  /\ now = 1
  /\ table = [i \in Ids |-> 0]
  /\ loop = 0
  /\ cache_exceptions \in BOOLEAN
  /\ expire_at_ttl \in BOOLEAN
  /\ lru = <<>>
  /\ futs = [r \in Reqs |-> NoFut]
  /\ ttl = [f \in QueryFuncs |-> <<>>]
  /\ pc = [r \in Reqs |-> "idle"]
  /\ op = [r \in Reqs |-> "none"]
  /\ arg = [r \in Reqs |-> 0]
  /\ local_now = [r \in Reqs |-> 0]
  /\ wait = [r \in Reqs |-> 0]
  /\ how = [r \in Reqs |-> "none"]
  /\ last = NoCall
  /\ recent = <<>>

Init ==
  /\ InitCaches
  /\ posts = <<>>
  /\ shown = NoView

PointSteps(ids) ==
  \E r \in Reqs :
    \/ get_post_by_id(r, ids)
    \/ get_item_call(r)
    \/ get_item_return(r)
    \/ resume(r)

QuerySteps(calls) ==
  \E r \in Reqs :
    \/ cached_call(r, calls)
    \/ cached_return(r)

WriteSteps(ids) ==
  \E r \in Reqs :
    \/ add_new_post(r, ids)
    \/ put_item_return(r)

Arrivals == \E r \in Reqs : request(r)

\* the post that is looked up and written where one is enough
OneId == {1}

\* the posts that are written and listed
TwoIds == {1, 2}

NextPoint == Arrivals \/ PointSteps(Ids)

\* the listing and the key query: one key for each of the two lifetimes
TwoCalls == {<<"get_all_posts_by_date", <<>>>>, <<"query_table", <<"postId", 1>>>>}

\* two keys of one cache
AttrCalls == {<<"get_posts_by_attr_containing", <<"categories", "x">>>>,
              <<"get_posts_by_attr_containing", <<"tags", "t">>>>}

NextQuery == Arrivals \/ QuerySteps(TwoCalls) \/ WriteSteps(TwoIds) \/ tick

NextAttr == Arrivals \/ QuerySteps(AttrCalls) \/ WriteSteps(TwoIds) \/ tick

\* one key of each cached query function
LayerCalls == TwoCalls \cup {<<"get_posts_by_attr_containing", <<"categories", "x">>>>}

Next == Arrivals \/ PointSteps(OneId) \/ QuerySteps(LayerCalls) \/ WriteSteps(OneId)

\* the Point Cache over every id, with either treatment of cached exceptions
InitPoint == Init /\ ~expire_at_ttl

SpecPoint == InitPoint /\ [][NextPoint]_vars

NextPointTime == Arrivals \/ PointSteps(OneId) \/ WriteSteps(OneId) \/ tick

\* the Point Cache for one id, the write path and the clock
SpecPointTime == InitPoint /\ [][NextPointTime]_vars

NextPost == Arrivals \/ PointSteps(OneId) \/ WriteSteps(OneId) \/ get_post

\* the post page: get_post on the Point Cache for one id, and the write path
SpecPost == InitPoint /\ [][NextPost]_vars

Cancels == \E r \in Reqs : cancel(r)

NextCancel == Arrivals \/ PointSteps(OneId) \/ Cancels

\* the Point Cache for one id, with requests that are cancelled while they wait
SpecCancel == InitPoint /\ [][NextCancel]_vars

InitQuery == Init /\ cache_exceptions

\* the Query Caches, the write path and the clock, with either treatment of
\* an entry at its expire time
SpecQuery == InitQuery /\ [][NextQuery]_vars

\* the category and tag scans, which share one cache, the write path and the clock
SpecAttr == InitQuery /\ [][NextAttr]_vars

\* the scans: the listing, and two keys of the cache of the filtered scans
ScanCalls == AttrCalls \cup {<<"get_all_posts_by_date", <<>>>>}

NextScans == Arrivals \/ QuerySteps(ScanCalls) \/ WriteSteps(OneId) \/ tick

\* the two caches of scans, the write path and the clock
SpecScans == InitQuery /\ [][NextScans]_vars

\* what num_posts is given to preview_posts
PreviewSizes == 0..(MaxPosts + 1)

NextViews ==
  \/ get_all_posts_by_date
  \/ \E n \in PreviewSizes : preview(n)
  \/ index
  \/ latest
  \/ listing
  \/ count_categories

\* any dates in any order
InitViews ==
  /\ InitCaches /\ ~cache_exceptions /\ ~expire_at_ttl
  /\ shown = NoView
  /\ \E n \in 0..MaxPosts : \E ds \in [1..n -> 1..MaxDate] : posts = SortInput(n, ds)

\* the handlers on a list of posts with any dates in any order
SpecViews == InitViews /\ [][NextViews]_vars

NextCount == count_categories \/ index

\* any categories in any order
InitCount ==
  /\ InitCaches /\ ~cache_exceptions /\ ~expire_at_ttl
  /\ shown = NoView
  /\ \E n \in 0..MaxCounted : \E cl \in [1..n -> CatLists] : posts = CountInput(n, cl)

\* the handlers that count, on a list of posts with any categories
SpecCount == InitCount /\ [][NextCount]_vars

\* the whole layer at one time: the Point Cache, the three Query Caches and
\* the write path
Spec == Init /\ [][Next]_vars

----------------------------------------------------------------------------
(* The claims.                                                             *)

\* the requests that wait in get_post_by_id for a fetch that has not finished
PointWaiters ==
  {r \in Reqs : /\ pc[r] = "waiting"
                /\ op[r] = "get_post_by_id"
                /\ futs[wait[r]].state \in {"scheduled", "running"}}

\* C1: single-flight on the Point Cache: requests that wait in
\* get_post_by_id for the same id at the same time wait for one and the same
\* fetch, so that get_item is called once for them and they all get its result.
C1_SingleFlight ==
  \A q \in PointWaiters : \A r \in PointWaiters :
    arg[q] = arg[r] => wait[q] = wait[r]

Calls(r, o, a) ==
  /\ pc[r] \in {"idle", "issued"}
  /\ pc'[r] \notin {"idle", "issued"}
  /\ IF pc'[r] = "done"
     THEN last'.op = o /\ last'.arg = a
     ELSE op'[r] = o /\ arg'[r] = a

\* C3: memoization of point lookups: while the cache holds, for an id, a
\* fetch that completed with a value (an item or None), a get_post_by_id of
\* that id returns that value at once, as a hit, and starts no task and no
\* get_item call; and the value of a completed fetch that stays in the cache
\* does not change, whatever is written to the table.
C3_Memoized ==
  [][ /\ \A r \in Reqs : \A k \in Ids :
           LET i == IndexOf(lru, k)
           IN  (/\ Calls(r, "get_post_by_id", k)
                /\ i # 0
                /\ futs[lru[i].fut].state = "done")
                 => /\ pc'[r] = "done"
                    /\ last'.op = "get_post_by_id"
                    /\ last'.arg = k
                    /\ last'.how = "hit"
                    /\ last'.result = Ok(futs[lru[i].fut].val)
                    /\ futs' = futs
                    /\ loop' = 0
                    /\ KeysOf(lru') = KeysOf(lru)
      /\ \A f \in Reqs :
           (futs[f].state = "done" /\ \E j \in 1..Len(lru') : lru'[j].fut = f)
             => futs'[f] = futs[f]
    ]_vars

\* C3's case: a lookup served from the cache with None for a post that has
\* been written since the first lookup.
C3_Witness ==
  /\ last.op = "get_post_by_id"
  /\ last.how = "hit"
  /\ last.result = Ok(<<>>)
  /\ table[last.arg] # 0

\* C4: TTL expiry of Query Cache entries: with an entry for the key stored
\* at time t, a lookup strictly before t + T returns the entry's value without
\* a backend call and a lookup strictly after t + T goes to the backend
\* (T is scan_ttl for get_all_posts and get_posts_by_attr_containing and
\* query_ttl for query_table); a lookup leaves the entry's expire time as it
\* was.
C4_Expiry ==
  [][ \A r \in Reqs : \A call \in TwoCalls :
        LET f == Func(call[1])
            c == ttl[f]
            i == IndexOf(c, call[2])
            T == IF f = "query_table" THEN query_ttl ELSE scan_ttl
        IN  (Calls(r, call[1], call[2]) /\ i # 0)
              => /\ now < c[i].stored + T
                      => /\ pc'[r] = "done"
                         /\ last'.how = "hit"
                         /\ last'.result = Ok(Returned(call[1], c[i].val))
                         /\ loop' = 0
                 /\ now > c[i].stored + T
                      => /\ pc'[r] = "backend"
                         /\ loop' = r
                 /\ \E j \in 1..Len(ttl'[f]) :
                      /\ ttl'[f][j].key = call[2]
                      /\ ttl'[f][j].expire = c[i].expire
                      /\ ttl'[f][j].stored = c[i].stored
    ]_vars

\* C4's case: after a hit on a query_table entry, a lookup of the key later
\* than query_ttl after the store is in its backend call.
C4_Witness ==
  /\ last.how = "hit"
  /\ last.op = "query_table"
  /\ \E r \in Reqs :
       /\ pc[r] = "backend"
       /\ op[r] = "query_table"
       /\ arg[r] = last.arg
       /\ LET c == ttl["query_table"]
              i == IndexOf(c, arg[r])
          IN  i # 0 /\ now > c[i].stored + query_ttl

\* C5: Point Cache failures are not cached: no get_post_by_id call is
\* answered from the cache, without a get_item call, with the exception of
\* an earlier fetch.
C5_FailureNotCached ==
  ~(last.op = "get_post_by_id" /\ last.how = "hit" /\ last.result.kind = "exc")

\* C6: Query Cache failures are not cached: when the backend call of a
\* cached query function raises, the caller gets the exception, every Query
\* Cache is as it was before the call returned, and a lookup of the key finds
\* no live entry, so that it goes to the backend again.
C6_FailureNotStored ==
  [][ \A r \in Reqs :
        (/\ pc[r] = "backend"
         /\ op[r] # "add_new_post"
         /\ pc'[r] = "done"
         /\ last'.result.kind = "exc")
          => /\ ttl' = ttl
             /\ ~Live(ttl'[Func(op[r])], arg[r], now')
    ]_vars

\* C6's case: a query call raised, and a later call of the same function
\* with the same key is in the backend.
C6_Witness ==
  /\ last.how = "miss"
  /\ last.result.kind = "exc"
  /\ \E r \in Reqs :
       /\ pc[r] = "backend"
       /\ op[r] = last.op
       /\ arg[r] = last.arg

PostIds(s) == {s[j].postId : j \in 1..Len(s)}

\* C7: bounded staleness of the listing: a get_all_posts_by_date made when
\* get_all_posts has no entry, or later than scan_ttl after its entry was
\* stored, goes to the backend, whatever hits there were before; and a
\* get_all_posts_by_date whose scan succeeds returns every post written to
\* the table, with the date it was written with.
C7_BoundedStaleness ==
  [][ \A r \in Reqs :
        LET c == ttl["get_all_posts"]
            i == IndexOf(c, <<>>)
        IN  /\ (/\ Calls(r, "get_all_posts_by_date", <<>>)
                /\ IF i = 0 THEN TRUE ELSE now > c[i].stored + scan_ttl)
                 => (pc'[r] = "backend" /\ loop' = r)
            /\ (/\ pc[r] = "backend"
                /\ op[r] = "get_all_posts_by_date"
                /\ pc'[r] = "done"
                /\ last'.result.kind = "ok")
                 => \A p \in Ids :
                      table[p] # 0 =>
                        \E j \in 1..Len(last'.result.val) :
                          /\ last'.result.val[j].postId = p
                          /\ last'.result.val[j].date = table[p]
    ]_vars

\* C7's case: a post was written, a listing served from the cache inside
\* the window omitted it, and a listing requested after the window is in
\* its scan.
C7_Witness ==
  /\ last.op = "get_all_posts_by_date"
  /\ last.how = "hit"
  /\ \E p \in Ids : table[p] # 0 /\ p \notin PostIds(last.result.val)
  /\ \E r \in Reqs :
       /\ pc[r] = "backend"
       /\ op[r] = "get_all_posts_by_date"
       /\ LET c == ttl["get_all_posts"]
          IN  c # <<>> /\ now > c[1].stored + scan_ttl

\* C8: the write path does not touch the caches: the steps of add_new_post
\* (the call of put_item and its return or exception) leave the Point Cache,
\* its futures and every Query Cache as they were, and change the table in
\* the written post only, and only when put_item succeeds.
C8_WriteLeavesCaches ==
  [][ \A r \in Reqs :
        /\ (pc[r] \in {"idle", "issued"} /\ op'[r] = "add_new_post")
             => (lru' = lru /\ futs' = futs /\ ttl' = ttl /\ table' = table)
        /\ (pc[r] = "backend" /\ op[r] = "add_new_post" /\ pc'[r] = "done")
             => /\ lru' = lru /\ futs' = futs /\ ttl' = ttl
                /\ IF last'.result.kind = "ok"
                   THEN table' = [table EXCEPT ![arg[r]] = local_now[r]]
                   ELSE table' = table
    ]_vars

\* C8's case: a post has been written while the Point Cache and two of
\* the Query Caches held entries.
C8_Witness ==
  /\ last.op = "add_new_post"
  /\ last.result.kind = "ok"
  /\ lru # <<>>
  /\ Cardinality({f \in QueryFuncs : ttl[f] # <<>>}) >= 2

\* the position of id k among the ids given to get_post_by_id: later is
\* more recently used
LastUse(k) == CHOOSE j \in 1..Len(recent) : recent[j] = k

\* C9: Point Cache capacity and LRU eviction: the cache never holds more
\* than maxsize entries; a step that admits a new id into a cache that is not
\* full removes nothing, and one that admits it into a full cache removes
\* exactly one id, the one least recently given to get_post_by_id among the
\* cached ones.
C9_CapacityLRU ==
  [][ /\ Len(lru') <= maxsize
      /\ \A k \in Ids :
           (k \notin KeysOf(lru) /\ k \in KeysOf(lru'))
             => IF Len(lru) < maxsize
                THEN KeysOf(lru') = KeysOf(lru) \cup {k}
                ELSE \E v \in KeysOf(lru) :
                       /\ KeysOf(lru') = (KeysOf(lru) \ {v}) \cup {k}
                       /\ \A w \in KeysOf(lru) \ {v} : LastUse(v) < LastUse(w)
    ]_vars

\* C9's case: the cache is full and an entry was evicted while an entry
\* inserted before it, and used again since, stays.
C9_Witness ==
  /\ Len(lru) = maxsize
  /\ \A g \in Reqs : futs[g].state # "exc"
  /\ \E f \in Reqs :
       /\ futs[f].state \in {"scheduled", "running"}
       /\ futs[f].key \notin KeysOf(lru)
       /\ \E j \in 1..Len(lru) : lru[j].fut < f

\* request r is next to make its call into db_conn
AtTurn(r) ==
  /\ pc[r] = "issued"
  /\ IF r = 1 THEN TRUE ELSE pc[r - 1] \notin {"idle", "issued"}

\* a get_item, scan or query call is in progress
ReadInProgress ==
  /\ loop # 0
  /\ \/ futs[loop].state = "running"
     \/ pc[loop] = "backend" /\ op[loop] # "add_new_post"

\* C10: non-blocking backend access: while a get_item, scan or query call
\* is in progress, the request that is next to make its call can make it.
C10_NonBlocking ==
  \A r \in Reqs :
    (ReadInProgress /\ AtTurn(r))
      => ENABLED (\/ get_post_by_id(r, OneId)
                  \/ cached_call(r, LayerCalls)
                  \/ add_new_post(r, OneId))

\* C11: cancellation isolation: when the request of one of the callers
\* that wait for a fetch is cancelled, the fetch's future and task and the
\* cache are as before and every other caller goes on waiting for the same
\* future; and a caller that is resumed gets the result of the future it
\* waited for.
C11_CancelIsolated ==
  [][ \A r \in Reqs :
        /\ (pc[r] = "waiting" /\ pc'[r] = "cancelled")
             => /\ futs[wait[r]].state = "scheduled" => futs' = futs
                /\ lru' = lru
                /\ \A q \in Reqs \ {r} : pc'[q] = pc[q] /\ wait'[q] = wait[q]
        /\ (pc[r] = "waiting" /\ pc'[r] = "done")
             => /\ futs[wait[r]].state \in {"done", "exc"}
                /\ futs[wait[r]].key = arg[r]
                /\ last'.result = FutResult(futs[wait[r]])
    ]_vars

\* C11's case: a caller that had joined a fetch was cancelled while the
\* fetch was in flight, and an earlier caller of the same id has got the
\* fetch's value since (with failed fetches kept, the id has one fetch).
C11_Witness ==
  /\ cache_exceptions
  /\ last.op = "get_post_by_id"
  /\ last.how \in {"miss", "join"}
  /\ last.result.kind = "ok"
  /\ \E r \in Reqs :
       /\ pc[r] = "cancelled"
       /\ how[r] = "in flight"
       /\ arg[r] = last.arg
       /\ \E q \in 1..(r - 1) : pc[q] = "done"

\* where the post with id i is in the list s
Position(s, i) == CHOOSE j \in 1..Len(s) : s[j].postId = i

\* C12: date-sorted listing: what get_all_posts_by_date returns for a list of
\* get_all_posts is a permutation of it (as long, and with each of its posts),
\* no post in it is before one of a greater date, and two posts of one date
\* are in the order they have in the unsorted list.
C12_DateSorted ==
  shown.fn = "get_all_posts_by_date" =>
    LET listing_ == shown.val
    IN  /\ Len(listing_) = Len(posts)
        /\ \A j \in 1..Len(posts) : \E k \in 1..Len(listing_) : listing_[k] = posts[j]
        /\ \A j, k \in 1..Len(listing_) :
             j < k => /\ listing_[j].date >= listing_[k].date
                      /\ listing_[j].date = listing_[k].date
                           => Position(posts, listing_[j].postId)
                                < Position(posts, listing_[k].postId)

\* a list that is not in order and has two posts of one date was sorted
C12_Witness ==
  /\ shown.fn = "get_all_posts_by_date"
  /\ shown.val # posts
  /\ \E j, k \in 1..Len(posts) : j < k /\ posts[j].date = posts[k].date

\* where the category name is in the list d: <<post, place in its categories>>
Occurrences(d, name) ==
  {o \in (1..Len(d)) \X (1..MaxCats + 1) :
     o[2] <= Len(d[o[1]].categories) /\ d[o[1]].categories[o[2]] = name}

\* o is met before u when the posts and their categories are gone through in order
Before(o, u) == o[1] < u[1] \/ (o[1] = u[1] /\ o[2] < u[2])

FirstOccurrence(d, name) ==
  CHOOSE o \in Occurrences(d, name) : \A u \in Occurrences(d, name) : o = u \/ Before(o, u)

\* count is the count of the categories of d
CountOf(d, count) ==
  /\ \A j, k \in 1..Len(count) : j # k => count[j].name # count[k].name
  /\ \A name \in CatNames :
       Occurrences(d, name) # {} <=> \E j \in 1..Len(count) : count[j].name = name
  /\ \A j \in 1..Len(count) : count[j].count = Cardinality(Occurrences(d, count[j].name))
  /\ \A j, k \in 1..Len(count) :
       j < k => Before(FirstOccurrence(d, count[j].name), FirstOccurrence(d, count[k].name))

\* C13: category frequency count: category_counter gives one pair for each
\* category that occurs in the posts' categories lists, with the number of
\* its occurrences in all of them, and the pairs are in the order in which
\* the categories are first met going through the posts and their
\* categories in order; so are the categories of the index page, counted on
\* the posts by date.
C13_CategoryCount ==
  /\ shown.fn = "category_counter" => CountOf(posts, shown.val)
  /\ shown.fn = "index" => CountOf(sorted_by_date(posts), shown.val.categories)

\* two categories, the one that is met second occurs more often and is the
\* smaller name: neither an order by count nor one by name gives this list
C13_Witness ==
  /\ shown.fn = "category_counter"
  /\ Len(shown.val) = 2
  /\ shown.val[1].count < shown.val[2].count
  /\ shown.val[1].name = "y"
  /\ \E j \in 1..Len(posts) : Len(posts[j].categories) = 2
                              /\ posts[j].categories[1] = posts[j].categories[2]

\* C14: latest on an empty post set reports not-found: with no posts the
\* handler answers 404 and not with an unhandled fault; with posts it
\* redirects to /post/<postId> of a post of the greatest date, the one of
\* them that comes first in the list as it was stored.
C14_LatestOrNotFound ==
  shown.fn = "latest" =>
    IF Len(posts) = 0 THEN shown.val.status = 404
    ELSE /\ shown.val.status = 302
         /\ \E j \in 1..Len(posts) :
              /\ posts[j].postId = shown.val.location
              /\ \A k \in 1..Len(posts) : posts[k].date <= posts[j].date
              /\ \A k \in 1..(j - 1) : posts[k].date < posts[j].date

\* latest has answered with no posts in the table
C14_Witness ==
  /\ shown.fn = "latest"
  /\ Len(posts) = 0
  /\ shown.val.status = 404

\* the result of a scan that found no posts: get_all_posts returns the
\* Items, get_posts_by_attr_containing the response that has them
NoPosts(f) == IF f = "get_all_posts" THEN <<>> ELSE [Items |-> <<>>]

\* C15: an empty query result is a cacheable value: when the scan of
\* get_posts_by_attr_containing or of get_all_posts succeeds with no posts,
\* the call returns the empty result and the cache holds it for the key
\* after; and a call for a key whose entry holds the empty result, made
\* before scan_ttl has passed since the store, returns it as a hit without
\* a backend call.
C15_EmptyIsCached ==
  [][ \A r \in Reqs : \A call \in ScanCalls :
        LET f == Func(call[1])
            c == ttl[f]
            i == IndexOf(c, call[2])
        IN  /\ (/\ pc[r] = "backend" /\ pc'[r] = "done"
                /\ op[r] = call[1] /\ arg[r] = call[2]
                /\ last'.result.kind = "ok"
                /\ Backend(f, table, call[2]) = NoPosts(f))
                 => /\ last'.result = Ok(NoPosts(f))
                    /\ \E j \in 1..Len(ttl'[f]) :
                         ttl'[f][j].key = call[2] /\ ttl'[f][j].val = NoPosts(f)
            /\ (/\ Calls(r, call[1], call[2])
                /\ i # 0
                /\ c[i].val = NoPosts(f)
                /\ now < c[i].stored + scan_ttl)
                 => /\ pc'[r] = "done"
                    /\ last'.how = "hit"
                    /\ last'.result = Ok(NoPosts(f))
                    /\ loop' = 0
    ]_vars

\* the empty result of a filtered scan is served from the cache while the
\* table has a post that the filter matches
C15_Witness ==
  /\ last.op = "get_posts_by_attr_containing"
  /\ last.how = "hit"
  /\ last.result = Ok(NoPosts(last.op))
  /\ Backend(last.op, table, last.arg) # NoPosts(last.op)

\* C16: the category and tag listings show the up-to-five most recent posts:
\* of the posts of the scan result, categories() and tags() show five, or all
\* when there are fewer, and no post they leave out has a greater date than
\* one they show.
C16_MostRecentListed ==
  shown.fn = "listing" =>
    /\ Len(shown.val) = Min(listing_num_posts, Len(posts))
    /\ \A j \in 1..Len(shown.val) : \A k \in 1..Len(posts) :
         (\A m \in 1..Len(shown.val) : shown.val[m].postId # posts[k].postId)
           => posts[k].date <= shown.val[j].date

\* the ids whose entry in the Point Cache holds a fetched value: an item, or
\* None for an id that was not in the table
Fetched == {k \in KeysOf(lru) : futs[lru[IndexOf(lru, k)].fut].state = "done"}

\* C17: Point Cache entries never expire by time: a step in which time passes
\* or the table is written leaves the Point Cache as it is; the entry of a
\* fetched value leaves the cache only as the least recently used one, when
\* the cache is full and a new id is stored; and while the entry is there a
\* get_post_by_id of its id returns its value as a hit, whatever the time
\* and whatever has been written.
C17_NoExpiry ==
  [][ /\ (now' # now \/ table' # table) => (lru' = lru /\ futs' = futs)
      /\ \A k \in Fetched :
           /\ k \notin KeysOf(lru')
                => /\ Len(lru) = maxsize
                   /\ lru[1].key = k
                   /\ \E n \in Ids : n \in KeysOf(lru') /\ n \notin KeysOf(lru)
           /\ k \in KeysOf(lru')
                => futs'[lru'[IndexOf(lru', k)].fut] = futs[lru[IndexOf(lru, k)].fut]
           /\ \A r \in Reqs :
                Calls(r, "get_post_by_id", k)
                  => /\ pc'[r] = "done"
                     /\ last'.how = "hit"
                     /\ last'.result = Ok(futs[lru[IndexOf(lru, k)].fut].val)
    ]_vars

\* the not-found marker of an id is in the cache and was served as a hit,
\* the id has been written to the table and time has passed since
C17_Witness ==
  /\ last.op = "get_post_by_id"
  /\ last.how = "hit"
  /\ last.result = Ok(<<>>)
  /\ last.arg \in Fetched
  /\ table[last.arg] # 0
  /\ now > table[last.arg]

FirstOf(s, n, preview_) ==
  /\ Len(preview_) = (IF n < Len(s) THEN n ELSE Len(s))
  /\ \A j \in 1..Len(preview_) :
       /\ preview_[j].postId = s[j].postId
       /\ preview_[j].date = s[j].date
       /\ preview_[j].categories = s[j].categories

\* C19: preview selection: for a list of posts and an N >= 0, preview_posts
\* returns min(N, length) posts, the first ones of the list in the order of
\* the list; the index page gives it the posts by date and no N, which is
\* N = 3, and the category and tag pages give it the scan result and N = 5.
C19_PreviewSelection ==
  /\ shown.fn = "preview_posts" => FirstOf(posts, shown.val.n, shown.val.posts)
  /\ shown.fn = "index" => FirstOf(sorted_by_date(posts), 3, shown.val.posts)
  /\ shown.fn = "listing" => FirstOf(posts, 5, shown.val)

\* a preview of some and not all of the posts of a list that is not in the
\* order of the dates
C19_Witness ==
  /\ shown.fn = "preview_posts"
  /\ shown.val.n > 0
  /\ shown.val.n < Len(posts)
  /\ \E j \in 1..shown.val.n : \E k \in (shown.val.n + 1)..Len(posts) :
       posts[j].date < posts[k].date

\* C20: derived views do not alter cached data: no step of a handler that
\* sorts the posts by date, counts their categories or makes previews of them
\* (get_all_posts_by_date, category_counter, preview_posts with body_markup
\* and truncate_post) changes the cached list of posts: it keeps its posts,
\* their order and their bodies, which is what a later hit returns.
C20_ViewsLeaveCache ==
  [][ posts' = posts ]_vars

\* the index page was made from a list that is not in the order of the
\* dates: the previews have new bodies, the list is in its order and each of
\* its posts has the body it was stored with
C20_Witness ==
  /\ shown.fn = "index"
  /\ Len(shown.val.posts) > 0
  /\ shown.val.categories # <<>>
  /\ sorted_by_date(posts) # posts
  /\ \A j \in 1..Len(posts) : posts[j].postId = j /\ posts[j].body = Body(j)
  /\ \A j \in 1..Len(shown.val.posts) :
       shown.val.posts[j].body # Body(shown.val.posts[j].postId)

====
